---- MODULE Spec2Model ----
(***************************************************************************)
(* A state-machine model of the generic graph library:                     *)
(*   - graph::AdjacencyList        (src/src/graph/adjacency_list.hpp)      *)
(*   - graph::dfs / detail::dfsVisit (src/src/graph/depth_first_search.hpp)*)
(*   - graph::topoSort / TopoVisitor (src/src/graph/topological_sort.hpp)  *)
(*   - testTopoSort, main            (src/test/main.cpp)                   *)
(*                                                                         *)
(* C++ containers are 0-based, TLA+ sequences 1-based: the element with    *)
(* C++ index i of a vector s is s[i + 1], written At(s, i).                *)
(***************************************************************************)
EXTENDS Integers, Sequences, FiniteSets, TLC

VARIABLES
    category,   \* template parameter DirectedCategoryT
    vertexProp, \* template parameter VertexPropT: "NoProp" or "int"
    edgeProp,   \* template parameter EdgePropT:   "NoProp" or "int"
    vList,      \* AdjacencyList::vList, a vector of StoredVertex
    eList,      \* AdjacencyList::eList, a vector of StoredEdge
    vRet,       \* history: the descriptors returned by the addVertex calls, in call order
    eRet,       \* history: the descriptors returned by the addEdge calls, in call order
    eCalls,     \* history: the arguments <<s, t>> of the addEdge calls, in call order
    vGiven,     \* history: per vertex, the payload last handed over for it, or Unset
    eGiven,     \* history: per edge, the payload last handed over for it, or Unset
    pc,         \* where the caller is: "build", or a position inside dfs
    visitor,    \* the visitor dfs was called with: "null" (DFSNullVisitor) or "topo"
    colour,     \* dfs: colour_vec
    it,         \* dfs: the counting iterator v of the loop being run
    stack,      \* the dfsVisit activation records, innermost last
    slot,       \* {} when the vertex bound to OutEdgeRange::v is what a read of it yields;
                \* {k} when every read yields the content k of the dead parameter slot
    stale,      \* number of single reads through OutEdgeRange::v that yielded a foreign value
    events,     \* history: the visitor callbacks fired, in order, each with its argument
                \* and with colour_vec as it was when the callback was made
    vs,         \* the caller's output vector (behind std::back_inserter)
    vs0,        \* history: the contents of vs when topoSort was called
    num,        \* testTopoSort: its argument (0 outside the test driver)
    script      \* testTopoSort: the mutations still to run (<<>> outside the test driver)

vars == <<category, vertexProp, edgeProp, vList, eList, vRet, eRet, eCalls, vGiven, eGiven,
          pc, visitor, colour, it, stack, slot, stale, events, vs, vs0, num, script>>

storeVars == <<vList, eList, vRet, eRet, eCalls, vGiven, eGiven>>
configVars == <<category, vertexProp, edgeProp>>
dfsVars == <<pc, visitor, colour, it, stack, slot, stale, events, vs, vs0>>
testVars == <<num, script>>

----------------------------------------------------------------------------
(* Bounds of the model *)

\* most vertices a graph is grown to
MaxVertices == 2
\* most edges a graph is grown to
MaxEdges == 2
\* most vertices and edges together a graph that carries payloads is grown to
MaxPropSize == 4
\* most reads through the dangling OutEdgeRange::v that yield a foreign value in one run
MaxStale == 1

(* Program constants *)

\* value-initialised int payload of StoredVertex()
DefaultProp == 0

\* payload values the callers hand over
Payloads == {DefaultProp, 7}

\* history values: no payload was handed over / the payload p was handed over
Unset == <<>>
Given(p) == <<p>>

At(s, i) == s[i + 1]

Range(s) == {s[i] : i \in 1..Len(s)}

----------------------------------------------------------------------------
(* Graph store *)

\* numVertices(g): g.vList.size()
numVertices == Len(vList)

\* numEdges(g): g.eList.size()
numEdges == Len(eList)

\* mutant: the range counts down from n-1
verticesDescending == [i \in 1..Len(vList) |-> Len(vList) - i]

\* vertices(g): VertexRange(numVertices(g)), the counting range 0 .. n-1
vertices == [i \in 1..numVertices |-> i - 1]

\* getIndex(v, g)
getIndex(v) == v

\* mutant: the vertex of a Directed graph holds an in-edge list too
StoredVertexSimpleWithIn == [eOut |-> <<>>, eIn |-> <<>>]

\* The four StoredVertex shapes; value-initialised as by StoredVertex()
StoredVertexSimple == [eOut |-> <<>>]
StoredVertexSimpleProp(vp) == [eOut |-> <<>>, vProp |-> vp]
StoredVertexComplex == [eOut |-> <<>>, eIn |-> <<>>]
StoredVertexComplexProp(vp) == [eOut |-> <<>>, eIn |-> <<>>, vProp |-> vp]

\* mutant: the payload handed to the constructor is not stored
StoredVertexDropsPayload(vp) ==
    IF category = "Directed"
    THEN (IF vertexProp = "NoProp" THEN StoredVertexSimple
          ELSE StoredVertexSimpleProp(DefaultProp))
    ELSE (IF vertexProp = "NoProp" THEN StoredVertexComplex
          ELSE StoredVertexComplexProp(DefaultProp))

\* the std::conditional chain that selects StoredVertex
StoredVertex(vp) ==
    IF category = "Directed"
    THEN (IF vertexProp = "NoProp" THEN StoredVertexSimple ELSE StoredVertexSimpleProp(vp))
    ELSE (IF vertexProp = "NoProp" THEN StoredVertexComplex ELSE StoredVertexComplexProp(vp))

\* StoredEdgeNoProp / StoredEdgeProp, selected by EdgePropT
StoredEdge(src, tar, ep) ==
    IF edgeProp = "NoProp"
    THEN [src |-> src, tar |-> tar]
    ELSE [src |-> src, tar |-> tar, eProp |-> ep]

\* EdgeDescriptor(src, tar, storedEdgeIdx)
EdgeDescriptor(src, tar, idx) == [src |-> src, tar |-> tar, storedEdgeIdx |-> idx]

\* mutant: descriptors are compared by their cached source and target
EdgeEqByEnds(a, b) == a.src = b.src /\ a.tar = b.tar

\* operator== on EdgeDescriptor
EdgeEq(a, b) == a.storedEdgeIdx = b.storedEdgeIdx

\* source(e, g), target(e, g)
source(e) == e.src
target(e) == e.tar

\* EdgeRange::iterator::dereference at position i of eList
EdgeAt(i) == EdgeDescriptor(At(eList, i).src, At(eList, i).tar, i)

\* edges(g)
edges == [i \in 1..numEdges |-> EdgeAt(i - 1)]

\* OutEdgeRange::iterator::dereference / InEdgeRange::iterator::dereference
\* for an adjacency entry holding storedEdgeIdx
Dereference(storedEdgeIdx) ==
    EdgeDescriptor(At(eList, storedEdgeIdx).src, At(eList, storedEdgeIdx).tar, storedEdgeIdx)

\* mutant: the new vertex is inserted at the front of the vertex list
PushVertexAtFront(vp) == <<StoredVertex(vp)>> \o vList

\* the vertex list after push_back(StoredVertex(vp))
PushVertex(vp) == Append(vList, StoredVertex(vp))

\* mutant: the two adjacency entries go to the wrong ends of the edge
PushAdjacencySwapped(v, u, index) ==
    LET withOut == [vList EXCEPT ![getIndex(u) + 1].eOut = Append(@, index)]
    IN  IF category = "Bidirectional"
        THEN [withOut EXCEPT ![getIndex(v) + 1].eIn = Append(@, index)]
        ELSE withOut

\* the vertex list after eOut.push_back(OutEdge(index)) on the source and,
\* for a Bidirectional graph, eIn.push_back(InEdge(index)) on the target
PushAdjacency(v, u, index) ==
    LET withOut == [vList EXCEPT ![getIndex(v) + 1].eOut = Append(@, index)]
    IN  IF category = "Bidirectional"
        THEN [withOut EXCEPT ![getIndex(u) + 1].eIn = Append(@, index)]
        ELSE withOut

\* operator[](VertexDescriptor), operator[](EdgeDescriptor)
VertexPropOf(v) == At(vList, getIndex(v)).vProp
EdgePropOf(e) == At(eList, e.storedEdgeIdx).eProp

\* the caller is between calls and free to mutate the graph
Building == pc = "build" /\ script = <<>>

\* how far this configuration of the graph is grown
VertexCap ==
    IF vertexProp = "NoProp" /\ edgeProp = "NoProp"
    THEN MaxVertices ELSE MaxPropSize - numEdges
EdgeCap ==
    IF vertexProp = "NoProp" /\ edgeProp = "NoProp"
    THEN MaxEdges ELSE MaxPropSize - numVertices

\* mutant: the descriptor returned is the vertex count after the push
DoAddVertexReturnsNewCount ==
    /\ vList' = PushVertex(DefaultProp)
    /\ vRet' = Append(vRet, numVertices + 1)
    /\ vGiven' = Append(vGiven, Unset)
    /\ UNCHANGED <<eList, eRet, eCalls, eGiven>>

\* body of addVertex(g)
DoAddVertex ==
    /\ LET newV == numVertices
       IN  /\ vList' = PushVertex(DefaultProp)
           /\ vRet' = Append(vRet, newV)
    /\ vGiven' = Append(vGiven, Unset)
    /\ UNCHANGED <<eList, eRet, eCalls, eGiven>>

\* body of addVertex(vp, g)
DoAddVertexProp(vp) ==
    /\ LET newV == numVertices
       IN  /\ vList' = PushVertex(vp)
           /\ vRet' = Append(vRet, newV)
    /\ vGiven' = Append(vGiven, Given(vp))
    /\ UNCHANGED <<eList, eRet, eCalls, eGiven>>

\* the values an int payload left uninitialised by StoredEdgeProp(src, tar) may hold
Indeterminate == IF edgeProp = "NoProp" THEN {DefaultProp} ELSE Payloads

\* body of addEdge(v, u, g), Directed and Bidirectional overloads
DoAddEdge(v, u) ==
    /\ LET index == numEdges
       IN  /\ \E ep \in Indeterminate : eList' = Append(eList, StoredEdge(v, u, ep))
           /\ vList' = PushAdjacency(v, u, index)
           /\ eRet' = Append(eRet, EdgeDescriptor(v, u, index))
    /\ eCalls' = Append(eCalls, <<v, u>>)
    /\ eGiven' = Append(eGiven, Unset)
    /\ UNCHANGED <<vRet, vGiven>>

\* body of addEdge(v, u, ep, g), Directed and Bidirectional overloads
DoAddEdgeProp(v, u, ep) ==
    /\ LET index == numEdges
       IN  /\ eList' = Append(eList, StoredEdge(v, u, ep))
           /\ vList' = PushAdjacency(v, u, index)
           /\ eRet' = Append(eRet, EdgeDescriptor(v, u, index))
    /\ eCalls' = Append(eCalls, <<v, u>>)
    /\ eGiven' = Append(eGiven, Given(ep))
    /\ UNCHANGED <<vRet, vGiven>>

\* a call of addVertex(g)
AddVertex ==
    /\ Building
    /\ numVertices < VertexCap
    /\ DoAddVertex
    /\ UNCHANGED <<configVars, dfsVars, testVars>>

\* a call of addVertex(vp, g): requires a VertexProp other than NoProp
AddVertexProp(vp) ==
    /\ Building
    /\ vertexProp # "NoProp"
    /\ numVertices < VertexCap
    /\ DoAddVertexProp(vp)
    /\ UNCHANGED <<configVars, dfsVars, testVars>>

\* a call of addEdge(v, u, g) with valid descriptors
AddEdge(v, u) ==
    /\ Building
    /\ numEdges < EdgeCap
    /\ v \in Range(vertices) /\ u \in Range(vertices)
    /\ DoAddEdge(v, u)
    /\ UNCHANGED <<configVars, dfsVars, testVars>>

\* a call of addEdge(v, u, ep, g): requires an EdgeProp other than NoProp
AddEdgeProp(v, u, ep) ==
    /\ Building
    /\ edgeProp # "NoProp"
    /\ numEdges < EdgeCap
    /\ v \in Range(vertices) /\ u \in Range(vertices)
    /\ DoAddEdgeProp(v, u, ep)
    /\ UNCHANGED <<configVars, dfsVars, testVars>>

\* g[v] = p through the read-write operator[](VertexDescriptor)
SetVertexProp(v, p) ==
    /\ Building
    /\ vertexProp # "NoProp"
    /\ v \in Range(vertices)
    /\ vList' = [vList EXCEPT ![getIndex(v) + 1].vProp = p]
    /\ vGiven' = [vGiven EXCEPT ![v + 1] = Given(p)]
    /\ UNCHANGED <<eList, vRet, eRet, eCalls, eGiven, configVars, dfsVars, testVars>>

\* g[e] = p through the read-write operator[](EdgeDescriptor)
SetEdgeProp(e, p) ==
    /\ Building
    /\ edgeProp # "NoProp"
    /\ eList' = [eList EXCEPT ![e.storedEdgeIdx + 1].eProp = p]
    /\ eGiven' = [eGiven EXCEPT ![e.storedEdgeIdx + 1] = Given(p)]
    /\ UNCHANGED <<vList, vRet, eRet, eCalls, vGiven, configVars, dfsVars, testVars>>

----------------------------------------------------------------------------
(* Visitors *)

Event(cb, arg, seen) == [cb |-> cb, arg |-> arg, seen |-> seen]

\* boost::counting_iterator<VertexDescriptor>: dfs hands the iterator v itself, not *v,
\* to initVertex and startVertex
CountingIterator(value) == [value |-> value]
Deref(i) == i.value

\* mutant: the vertex is inserted at the front of the output
VisitFinishVertexAtFront(out, v) == IF visitor = "topo" THEN <<v>> \o out ELSE out

\* TopoVisitor::finishVertex: *iter = v on the std::back_inserter handed to topoSort
\* (every by-value copy of the visitor writes to the same vector);
\* DFSNullVisitor::finishVertex: nothing
VisitFinishVertex(out, v) == IF visitor = "topo" THEN Append(out, v) ELSE out

\* std::reverse(vs.begin(), vs.end())
Reverse(s) == [i \in 1..Len(s) |-> s[Len(s) + 1 - i]]

----------------------------------------------------------------------------
(* Depth-first search *)

White == "White"
Grey == "Grey"
Black == "Black"

\* outEdges(v, g) returns OutEdgeRange(v, g), whose member `const VertexDescriptor& v`
\* is bound to the by-value parameter v of outEdges. begin() and end() read it after
\* outEdges has returned, when the parameter's lifetime may be over. What the read
\* yields is up to the build:
\*   - the bound value (the slot still holds it);
\*   - the same leftover content of the slot at every read, when the store of the
\*     parameter is elided as dead (slot = {k});
\*   - at single reads, any value the slot was overwritten with (counted in stale).
\* numVertices stands for every value that is no index of vList.
OutOfRange == numVertices
RangeIndex(v) ==
    IF slot # {}
    THEN slot
    ELSE {v} \cup (IF stale < MaxStale THEN 0..OutOfRange ELSE {})

\* the count of single foreign reads after a read of v that yielded r
Staled(v, r) == IF r = v \/ slot # {} THEN stale ELSE stale + 1

\* g.vList[idx].eOut
OutList(idx) == At(vList, idx).eOut

\* `e != outEdges(u, g).end()` for e at position pos of vertex rng's list, end() taken
\* from vertex r's list. Iterators of one vector compare by position; those of two
\* vectors are equal only when both vectors are empty (no storage on either side).
NotAtEnd(rng, pos, r) ==
    IF r = rng
    THEN pos # Len(OutList(rng))
    ELSE ~(OutList(rng) = <<>> /\ OutList(r) = <<>>)

\* mutant: the vertex is left Grey
MarkBlackForgotten(u) == colour

\* mutant: the vertex is left White when it is discovered
MarkGreyForgotten(u) == colour

\* colour[u] = DFSColour::Grey, colour[u] = DFSColour::Black
MarkGrey(u) == [colour EXCEPT ![u + 1] = Grey]
MarkBlack(u) == [colour EXCEPT ![u + 1] = Black]

\* the activation record of dfsVisit(g, visitor, u, colour)
Frame(u) == [u |-> u, rng |-> u, e |-> 0, at |-> "enter"]

Top == stack[Len(stack)]
SetTop(f) == [stack EXCEPT ![Len(stack)] = f]
Pop == SubSeq(stack, 1, Len(stack) - 1)

\* *e for the iterator of the innermost frame
CurrentEdge == Dereference(At(OutList(Top.rng), Top.e))

\* dfs(g, visitor): colour_vec(numVertices(g)) is value-initialised, which is White
CallDfs(vis, out) ==
    /\ Building
    /\ visitor' = vis
    /\ vs' = out
    /\ vs0' = out
    /\ colour' = [i \in 1..numVertices |-> White]
    /\ it' = 0
    /\ pc' = "init"
    /\ slot' \in {{}} \cup {{k} : k \in 0..OutOfRange}
    /\ UNCHANGED <<stack, stale, events, storeVars, configVars, testVars>>

\* first loop of dfs, one iteration
InitVertex ==
    /\ pc = "init"
    /\ it # numVertices
    /\ colour' = [colour EXCEPT ![At(vertices, it) + 1] = White]
    /\ events' = Append(events, Event("initVertex", CountingIterator(At(vertices, it)), colour'))
    /\ it' = it + 1
    /\ UNCHANGED <<pc, visitor, stack, slot, stale, vs, vs0, storeVars, configVars, testVars>>

\* first loop of dfs ends, second loop begins
InitEnd ==
    /\ pc = "init"
    /\ it = numVertices
    /\ pc' = "scan"
    /\ it' = 0
    /\ UNCHANGED <<visitor, colour, stack, slot, stale, events, vs, vs0, storeVars, configVars, testVars>>

\* mutant: dfsVisit is called without the startVertex callback
StartVertexSilent ==
    /\ pc = "scan"
    /\ it # numVertices
    /\ At(colour, At(vertices, it)) = White
    /\ stack' = <<Frame(At(vertices, it))>>
    /\ pc' = "visit"
    /\ UNCHANGED <<visitor, colour, it, slot, stale, events, vs, vs0, storeVars, configVars, testVars>>

\* second loop of dfs, an iteration that finds *v White: startVertex, call dfsVisit
StartVertex ==
    /\ pc = "scan"
    /\ it # numVertices
    /\ At(colour, At(vertices, it)) = White
    /\ events' = Append(events, Event("startVertex", CountingIterator(At(vertices, it)), colour))
    /\ stack' = <<Frame(At(vertices, it))>>
    /\ pc' = "visit"
    /\ UNCHANGED <<visitor, colour, it, slot, stale, vs, vs0, storeVars, configVars, testVars>>

\* second loop of dfs, an iteration that finds *v not White
SkipVertex ==
    /\ pc = "scan"
    /\ it # numVertices
    /\ At(colour, At(vertices, it)) # White
    /\ it' = it + 1
    /\ UNCHANGED <<pc, visitor, colour, stack, slot, stale, events, vs, vs0, storeVars, configVars, testVars>>

\* second loop of dfs ends: dfs returns
ScanEnd ==
    /\ pc = "scan"
    /\ it = numVertices
    /\ pc' = "done"
    /\ UNCHANGED <<visitor, colour, it, stack, slot, stale, events, vs, vs0, storeVars, configVars, testVars>>

\* dfsVisit entry: discoverVertex(u), colour[u] = Grey, e = outEdges(u, g).begin()
\* with begin() reading index r through the range's reference
DiscoverVertex(r) ==
    /\ pc = "visit"
    /\ Top.at = "enter"
    /\ r \in RangeIndex(Top.u)
    /\ events' = Append(events, Event("discoverVertex", Top.u, colour))
    /\ colour' = MarkGrey(Top.u)
    /\ stale' = Staled(Top.u, r)
    /\ IF r = OutOfRange
       THEN pc' = "fault" /\ stack' = stack
       ELSE pc' = pc /\ stack' = SetTop([Top EXCEPT !.rng = r, !.e = 0, !.at = "loop"])
    /\ UNCHANGED <<visitor, it, slot, vs, vs0, storeVars, configVars, testVars>>

\* mutant: the tests for Grey and for Black are exchanged
ClassifyGreyAsDone(e) ==
    IF At(colour, e.tar) = White
    THEN <<Event("examineEdge", e, colour), Event("treeEdge", e, colour)>>
    ELSE IF At(colour, e.tar) = Black
         THEN <<Event("examineEdge", e, colour), Event("backEdge", e, colour)>>
         ELSE <<Event("examineEdge", e, colour), Event("forwardOrCrossEdge", e, colour)>>

\* the callbacks of one loop iteration up to the classification of *e
Classify(e) ==
    IF At(colour, e.tar) = White
    THEN <<Event("examineEdge", e, colour), Event("treeEdge", e, colour)>>
    ELSE IF At(colour, e.tar) = Grey
         THEN <<Event("examineEdge", e, colour), Event("backEdge", e, colour)>>
         ELSE <<Event("examineEdge", e, colour), Event("forwardOrCrossEdge", e, colour)>>

\* loop test passed with end() reading index r: examineEdge(*e), then treeEdge(*e) and
\* the recursive call, or backEdge(*e), or forwardOrCrossEdge(*e)
ExamineEdge(r) ==
    /\ pc = "visit"
    /\ Top.at = "loop"
    /\ r \in RangeIndex(Top.u) \ {OutOfRange}
    /\ NotAtEnd(Top.rng, Top.e, r)
    /\ Top.e < Len(OutList(Top.rng))
    /\ stale' = Staled(Top.u, r)
    /\ events' = events \o Classify(CurrentEdge)
    /\ stack' = IF At(colour, CurrentEdge.tar) = White
                THEN Append(SetTop([Top EXCEPT !.at = "edge"]), Frame(CurrentEdge.tar))
                ELSE SetTop([Top EXCEPT !.at = "edge"])
    /\ UNCHANGED <<pc, visitor, colour, it, slot, vs, vs0, storeVars, configVars, testVars>>

\* the end of a loop iteration: finishEdge(*e), e++
FinishEdge ==
    /\ pc = "visit"
    /\ Top.at = "edge"
    /\ events' = Append(events, Event("finishEdge", CurrentEdge, colour))
    /\ stack' = SetTop([Top EXCEPT !.e = @ + 1, !.at = "loop"])
    /\ UNCHANGED <<pc, visitor, colour, it, slot, stale, vs, vs0, storeVars, configVars, testVars>>

\* loop test failed with end() reading index r: colour[u] = Black, finishVertex(u),
\* return to the caller (the loop of dfsVisit one level up, or the loop of dfs and its v++)
FinishVertex(r) ==
    /\ pc = "visit"
    /\ Top.at = "loop"
    /\ r \in RangeIndex(Top.u) \ {OutOfRange}
    /\ ~NotAtEnd(Top.rng, Top.e, r)
    /\ stale' = Staled(Top.u, r)
    /\ colour' = MarkBlack(Top.u)
    /\ events' = Append(events, Event("finishVertex", Top.u, colour'))
    /\ vs' = VisitFinishVertex(vs, Top.u)
    /\ stack' = Pop
    /\ IF Len(stack) = 1
       THEN pc' = "scan" /\ it' = it + 1
       ELSE pc' = pc /\ it' = it
    /\ UNCHANGED <<visitor, slot, vs0, storeVars, configVars, testVars>>

\* end() indexes vList out of range, or the loop test passes with e at the end of its
\* own list and *e reads past it: the run is lost
RangeFault(r) ==
    /\ pc = "visit"
    /\ Top.at = "loop"
    /\ r \in RangeIndex(Top.u)
    /\ \/ r = OutOfRange
       \/ /\ r # OutOfRange
          /\ NotAtEnd(Top.rng, Top.e, r)
          /\ Top.e >= Len(OutList(Top.rng))
    /\ stale' = Staled(Top.u, r)
    /\ pc' = "fault"
    /\ UNCHANGED <<visitor, colour, it, stack, slot, events, vs, vs0, storeVars, configVars, testVars>>

\* the steps of a run of dfs
DfsStep ==
    \/ InitVertex
    \/ InitEnd
    \/ StartVertex
    \/ SkipVertex
    \/ ScanEnd
    \/ \E r \in 0..OutOfRange : DiscoverVertex(r)
    \/ \E r \in 0..OutOfRange : ExamineEdge(r)
    \/ FinishEdge
    \/ \E r \in 0..OutOfRange : FinishVertex(r)
    \/ \E r \in 0..OutOfRange : RangeFault(r)

----------------------------------------------------------------------------
(* Specification of the graph store: an empty graph of any configuration,  *)
(* grown by the mutating operations.                                       *)

InitStore ==
    /\ vList = <<>> /\ eList = <<>>
    /\ vRet = <<>> /\ eRet = <<>> /\ eCalls = <<>>
    /\ vGiven = <<>> /\ eGiven = <<>>
    /\ pc = "build"
    /\ visitor = "null"
    /\ colour = <<>>
    /\ it = 0
    /\ stack = <<>>
    /\ slot = {}
    /\ stale = 0
    /\ events = <<>>
    /\ vs = <<>>
    /\ vs0 = <<>>
    /\ num = 0
    /\ script = <<>>

Init ==
    /\ category \in {"Directed", "Bidirectional"}
    /\ vertexProp \in {"NoProp", "int"}
    /\ edgeProp \in {"NoProp", "int"}
    /\ InitStore

Next ==
    \/ AddVertex
    \/ \E vp \in Payloads : AddVertexProp(vp)
    \/ \E v, u \in Range(vertices) : AddEdge(v, u)
    \/ \E v, u \in Range(vertices), ep \in Payloads : AddEdgeProp(v, u, ep)
    \/ \E v \in Range(vertices), p \in Payloads : SetVertexProp(v, p)
    \/ \E e \in Range(eRet), p \in Payloads : SetEdgeProp(e, p)

Spec == Init /\ [][Next]_vars

----------------------------------------------------------------------------
(* The test driver: testTopoSort(num) of test/main.cpp builds one of three *)
(* Directed graphs, runs topoSort into an empty vector and reverses it.    *)

AddV == [op |-> "addVertex"]
\* addEdge(vs, vt, g) on the descriptors the s-th and t-th addVertex call returned
AddE(s, t) == [op |-> "addEdge", s |-> s, t |-> t]

EightVertices == <<AddV, AddV, AddV, AddV, AddV, AddV, AddV, AddV>>

\* the mutations testTopoSort(n) makes, in order
TestScript(n) ==
    CASE n = 1 -> EightVertices \o
                  <<AddE(0, 3), AddE(3, 5), AddE(5, 7), AddE(2, 4), AddE(4, 6), AddE(6, 7)>>
      [] n = 2 -> EightVertices \o
                  <<AddE(0, 2), AddE(1, 2), AddE(1, 3), AddE(1, 6),
                    AddE(2, 4), AddE(2, 5), AddE(3, 7), AddE(4, 7)>>
      [] n = 3 -> EightVertices \o
                  <<AddE(0, 3), AddE(1, 2), AddE(1, 6), AddE(5, 6)>>

\* the next mutation of the test
TestMutate ==
    /\ pc = "build"
    /\ script # <<>>
    /\ IF Head(script).op = "addVertex"
       THEN DoAddVertex
       ELSE DoAddEdge(At(vRet, Head(script).s), At(vRet, Head(script).t))
    /\ script' = Tail(script)
    /\ UNCHANGED <<num, configVars, dfsVars>>

\* graph::topoSort(g, std::back_inserter(vs)) on the empty vector vs
TestTopoSort ==
    /\ num # 0
    /\ CallDfs("topo", <<>>)

\* std::reverse(vs.begin(), vs.end()); the loop that follows prints vs
TestReverse ==
    /\ num # 0
    /\ pc = "done"
    /\ vs' = Reverse(vs)
    /\ pc' = "printed"
    /\ UNCHANGED <<visitor, colour, it, stack, slot, stale, events, vs0, storeVars, configVars, testVars>>

----------------------------------------------------------------------------
(* Specification of the traversals. Either a caller builds a payload-free  *)
(* graph of either category and runs dfs on it once, with a DFSNullVisitor *)
(* or through topoSort with a std::back_inserter (num = 0), or the test    *)
(* driver runs testTopoSort(num) for num in 1..3.                          *)

\* what the caller's output vector holds when topoSort is called
InitialOutputs == {<<>>, <<0>>}

\* dfs(g, DFSNullVisitor())
Dfs ==
    /\ num = 0
    /\ CallDfs("null", <<>>)

\* topoSort(g, std::back_inserter(vs)): dfs(g, TopoVisitor(oIter))
TopoSort ==
    /\ num = 0
    /\ \E out \in InitialOutputs : CallDfs("topo", out)

InitDfs ==
    /\ vertexProp = "NoProp"
    /\ edgeProp = "NoProp"
    /\ vList = <<>> /\ eList = <<>>
    /\ vRet = <<>> /\ eRet = <<>> /\ eCalls = <<>>
    /\ vGiven = <<>> /\ eGiven = <<>>
    /\ pc = "build"
    /\ visitor = "null"
    /\ colour = <<>>
    /\ it = 0
    /\ stack = <<>>
    /\ slot = {}
    /\ stale = 0
    /\ events = <<>>
    /\ vs = <<>>
    /\ vs0 = <<>>
    /\ \/ /\ num = 0
          /\ category \in {"Directed", "Bidirectional"}
          /\ script = <<>>
       \/ /\ num \in 1..3
          /\ category = "Directed"
          /\ script = TestScript(num)

NextDfs ==
    \/ AddVertex
    \/ \E v, u \in Range(vertices) : AddEdge(v, u)
    \/ Dfs
    \/ TopoSort
    \/ DfsStep
    \/ TestMutate
    \/ TestTopoSort
    \/ TestReverse

SpecDfs == InitDfs /\ [][NextDfs]_vars


----------------------------------------------------------------------------
(* Properties of the graph store *)

\* number of occurrences of x in the sequence s
Count(s, x) == Cardinality({i \in 1..Len(s) : s[i] = x})

VertexSet == 0..(numVertices - 1)
EdgeIndexSet == 0..(numEdges - 1)

\* g.vList[idx].eIn (Bidirectional graphs only)
InList(idx) == At(vList, idx).eIn

----------------------------------------------------------------------------
(* The adjacency ranges as a caller walks them:                            *)
(*    auto r = outEdges(v, g);                                             *)
(*    for (auto e = r.begin(); e != r.end(); e++) ... *e ...               *)
(* begin() and end() each read the vertex through the range's reference,   *)
(* which is bound to the dead parameter of outEdges / inEdges: a read may  *)
(* yield any value, the bound one included.                                *)

\* the outcome of a walk: the descriptors yielded, and whether the walk ended in an
\* access out of bounds
Walked(yield, fault) == [yield |-> yield, fault |-> fault]

\* dereference of the iterators over the adjacency entries of list
Descriptors(list) == [i \in 1..Len(list) |-> Dereference(list[i])]

\* the loop from the begin() of the list first to the end() of the list last: when
\* they are the same vector it yields its entries; iterators of two vectors are equal
\* only when both are empty, otherwise the loop runs off the end of first
Walk(first, last, sameVector) ==
    IF sameVector THEN Walked(Descriptors(first), FALSE)
    ELSE IF first = <<>> /\ last = <<>> THEN Walked(<<>>, FALSE)
    ELSE Walked(Descriptors(first), TRUE)

\* the outcomes of walking outEdges(v, g), begin() reading rb and end() reading re
OutEdgesWalks(v) ==
    {IF rb = OutOfRange \/ re = OutOfRange
     THEN Walked(<<>>, TRUE)
     ELSE Walk(OutList(rb), OutList(re), rb = re) : rb, re \in 0..OutOfRange}

\* inEdges(v, g) requires a Bidirectional graph
InEdgesAvailable == category = "Bidirectional"

\* the outcomes of walking inEdges(v, g), begin() reading rb and end() reading re
InEdgesWalks(v) ==
    {IF rb = OutOfRange \/ re = OutOfRange
     THEN Walked(<<>>, TRUE)
     ELSE Walk(InList(rb), InList(re), rb = re) : rb, re \in 0..OutOfRange}

\* the outcome of a degree query: the value returned, or an access out of bounds
Measured(value, fault) == [value |-> value, fault |-> fault]

\* std::distance(r.begin(), r.end()) from the begin() of the list first to the end()
\* of the list last: the length when they are the same vector, 0 when both vectors are
\* empty, and otherwise the difference of pointers into two allocations, which may be
\* any value (here: any of 0 .. numEdges + 1)
Distance(first, last, sameVector) ==
    IF sameVector THEN {Measured(Len(first), FALSE)}
    ELSE IF first = <<>> /\ last = <<>> THEN {Measured(0, FALSE)}
    ELSE {Measured(n, FALSE) : n \in 0..(numEdges + 1)}

\* the outcomes of outDegree(v, g), begin() reading rb and end() reading re
OutDegrees(v) ==
    UNION {IF rb = OutOfRange \/ re = OutOfRange
           THEN {Measured(0, TRUE)}
           ELSE Distance(OutList(rb), OutList(re), rb = re) : rb, re \in 0..OutOfRange}

\* the outcomes of inDegree(v, g), which requires a Bidirectional graph
InDegrees(v) ==
    UNION {IF rb = OutOfRange \/ re = OutOfRange
           THEN {Measured(0, TRUE)}
           ELSE Distance(InList(rb), InList(re), rb = re) : rb, re \in 0..OutOfRange}

\* C3: after n addVertex calls (with or without payload, interleaved with addEdge
\* calls) vertexCount() is n, and the k-th call returned descriptor k-1.
C3_VertexCountAndDescriptors ==
    /\ numVertices = Len(vRet)
    /\ \A k \in 1..Len(vRet) : vRet[k] = k - 1

\* C3 witness: two addVertex calls, one with and one without payload, and an addEdge
C3_Witness ==
    /\ Len(vRet) = 2
    /\ numEdges >= 1
    /\ vGiven[1] = Unset
    /\ vGiven[2] # Unset

\* C4: every edge added by addEdge(s, t) is held exactly once by the out-edge
\* sequence of s and by no other out-edge sequence; on a Bidirectional graph exactly
\* once by the in-edge sequence of t and by no other; every out-edge (in-edge) entry
\* of v indexes a stored edge whose source (target) is v.
C4_AdjacencyMatchesEdges ==
    /\ Len(eRet) = numEdges
    /\ \A i \in EdgeIndexSet : \A v \in VertexSet :
          /\ Count(OutList(v), i) = IF v = eRet[i + 1].src THEN 1 ELSE 0
          /\ category = "Bidirectional" =>
                Count(InList(v), i) = IF v = eRet[i + 1].tar THEN 1 ELSE 0
    /\ \A v \in VertexSet :
          /\ \A k \in Range(OutList(v)) :
                k \in EdgeIndexSet /\ source(Dereference(k)) = v
          /\ category = "Bidirectional" =>
                \A k \in Range(InList(v)) :
                   k \in EdgeIndexSet /\ target(Dereference(k)) = v

\* C4 witness: a Bidirectional graph after addEdge(v, u) and addEdge(u, v), v # u
C4_Witness ==
    /\ category = "Bidirectional"
    /\ numEdges = 2
    /\ eRet[1].src # eRet[1].tar
    /\ eRet[2].src = eRet[1].tar
    /\ eRet[2].tar = eRet[1].src

\* C5: a payload handed to addVertex(p) or addEdge(s, t, p) is what the property
\* accessor of the returned descriptor reads, and stays so across later mutations,
\* until it is overwritten through the accessor of the same descriptor.
C5_PropertyRoundTrip ==
    /\ vertexProp # "NoProp" =>
          \A k \in 1..Len(vRet) :
             vGiven[k] # Unset => Given(VertexPropOf(vRet[k])) = vGiven[k]
    /\ edgeProp # "NoProp" =>
          \A k \in 1..Len(eRet) :
             eGiven[k] # Unset => Given(EdgePropOf(eRet[k])) = eGiven[k]

\* C5 witness: a vertex and an edge were given the payload 7, and a vertex and an
\* edge were added after them
C5_Witness ==
    /\ vertexProp # "NoProp" /\ edgeProp # "NoProp"
    /\ Len(vGiven) = 2 /\ vGiven[1] = Given(7)
    /\ Len(eGiven) = 2 /\ eGiven[1] = Given(7)
    /\ VertexPropOf(0) = 7
    /\ EdgePropOf(eRet[1]) = 7

----------------------------------------------------------------------------
(* Properties of the traversals *)

\* dfs has returned to its caller
Returned == pc \in {"done", "printed"}

\* the positions in events of the callback cb made with argument arg
Occ(cb, arg) == {i \in 1..Len(events) : events[i].cb = cb /\ events[i].arg = arg}

\* the vertices that are targets of edges leaving S
Successors(S) ==
    {At(eList, k).tar : k \in {j \in EdgeIndexSet : At(eList, j).src \in S}}

RECURSIVE Closure(_)
Closure(S) == LET T == S \cup Successors(S) IN IF T = S THEN S ELSE Closure(T)

\* the vertices reachable from v along one edge or more
ReachableFrom(v) == Closure(Successors({v}))

Acyclic == \A v \in VertexSet : v \notin ReachableFrom(v)

\* what the call of topoSort added to the output
Produced == SubSeq(vs, Len(vs0) + 1, Len(vs))

\* a occurs in s, and b occurs somewhere after it
Before(s, a, b) == \E i, j \in 1..Len(s) : i < j /\ s[i] = a /\ s[j] = b

\* the arguments of the finishVertex callbacks, in order
FinishOrder ==
    LET fin == SelectSeq(events, LAMBDA ev : ev.cb = "finishVertex")
    IN  [i \in 1..Len(fin) |-> fin[i].arg]

\* C1: on a directed acyclic graph, the reverse of what topoSort produced is a
\* topological order: for every edge u -> v, u occurs before v.
C1_ReversedOutputIsTopologicalOrder ==
    (pc = "done" /\ visitor = "topo" /\ Acyclic) =>
       \A k \in EdgeIndexSet :
          Before(Reverse(Produced), At(eList, k).src, At(eList, k).tar)

\* C2: one run of dfs fires discoverVertex(v) once and finishVertex(v) once for every
\* vertex v, in that order, and examineEdge(e) once for every edge e of the edge store.
C2_EveryVertexAndEdgeOnce ==
    Returned =>
       /\ \A v \in VertexSet :
             /\ Cardinality(Occ("discoverVertex", v)) = 1
             /\ Cardinality(Occ("finishVertex", v)) = 1
             /\ \A i \in Occ("discoverVertex", v), j \in Occ("finishVertex", v) : i < j
       /\ \A k \in EdgeIndexSet : Cardinality(Occ("examineEdge", EdgeAt(k))) = 1

Classification == {"treeEdge", "backEdge", "forwardOrCrossEdge"}

\* the classification the protocol assigns to an edge whose target has colour c
ClassOf(c) ==
    IF c = White THEN "treeEdge" ELSE IF c = Grey THEN "backEdge" ELSE "forwardOrCrossEdge"

\* C6: for every edge e = (v, w) that dfs processes the callbacks come in the order
\* examineEdge(e), one classification, finishEdge(e); the classification is treeEdge,
\* backEdge or forwardOrCrossEdge as w is Unvisited, Active or Done when e is examined;
\* for a tree edge, discoverVertex(w) follows treeEdge(e) at once and finishEdge(e)
\* follows finishVertex(w) at once.
C6_EdgeCallbackProtocol ==
    \A i \in 1..Len(events) :
       LET ev == events[i]
       IN  /\ ev.cb = "examineEdge" =>
                 /\ i < Len(events)
                 /\ events[i + 1].cb = ClassOf(At(ev.seen, ev.arg.tar))
                 /\ events[i + 1].arg = ev.arg
                 /\ Returned =>
                       \E j \in (i + 2)..Len(events) :
                          events[j].cb = "finishEdge" /\ events[j].arg = ev.arg
           /\ ev.cb \in Classification =>
                 /\ i > 1
                 /\ events[i - 1].cb = "examineEdge"
                 /\ events[i - 1].arg = ev.arg
           /\ (ev.cb \in {"backEdge", "forwardOrCrossEdge"} /\ i < Len(events)) =>
                 /\ events[i + 1].cb = "finishEdge"
                 /\ events[i + 1].arg = ev.arg
           /\ (ev.cb = "treeEdge" /\ i < Len(events)) =>
                 /\ events[i + 1].cb = "discoverVertex"
                 /\ events[i + 1].arg = ev.arg.tar
           /\ (ev.cb = "finishVertex" /\ i < Len(events)) =>
                 \A d \in Occ("discoverVertex", ev.arg) :
                    (d > 1 /\ events[d - 1].cb = "treeEdge") =>
                       /\ events[i + 1].cb = "finishEdge"
                       /\ events[i + 1].arg = events[d - 1].arg
           /\ ev.cb = "finishEdge" =>
                 /\ i > 1
                 /\ \/ /\ events[i - 1].cb \in {"backEdge", "forwardOrCrossEdge"}
                       /\ events[i - 1].arg = ev.arg
                    \/ /\ events[i - 1].cb = "finishVertex"
                       /\ events[i - 1].arg = ev.arg.tar
                       /\ \E j \in 1..(i - 1) :
                             events[j].cb = "treeEdge" /\ events[j].arg = ev.arg

\* C6 witness: a finished run in which a tree edge, a back edge and a forward or cross
\* edge were reported, the tree edge closed after the exploration of its target
C6_Witness ==
    /\ pc = "done"
    /\ \E i \in 1..Len(events) : events[i].cb = "backEdge"
    /\ \E i \in 1..Len(events) : events[i].cb = "forwardOrCrossEdge"
    /\ \E i \in 1..Len(events) :
          /\ events[i].cb = "treeEdge"
          /\ \E j \in (i + 3)..Len(events) :
                /\ events[j].cb = "finishEdge" /\ events[j].arg = events[i].arg
                /\ events[j - 1].cb = "finishVertex"

\* C7: during dfs a vertex changes colour only from White to Grey, at its
\* discoverVertex, and from Grey to Black, at its finishVertex; all vertices are White
\* until the first discoverVertex and all are Black when dfs has returned.
C7_ColourStateMachine ==
    /\ [](pc # "build" =>
             /\ Len(colour) = numVertices
             /\ (\A i \in 1..Len(events) : events[i].cb # "discoverVertex") =>
                   \A v \in VertexSet : At(colour, v) = White
             /\ Returned => \A v \in VertexSet : At(colour, v) = Black)
    /\ [][pc # "build" =>
             \A v \in VertexSet :
                At(colour', v) # At(colour, v) =>
                   /\ Len(events') = Len(events) + 1
                   /\ events'[Len(events')].arg = v
                   /\ \/ /\ At(colour, v) = White
                         /\ At(colour', v) = Grey
                         /\ events'[Len(events')].cb = "discoverVertex"
                      \/ /\ At(colour, v) = Grey
                         /\ At(colour', v) = Black
                         /\ events'[Len(events')].cb = "finishVertex"]_vars

\* C7 witness: dfs has returned from a graph of two vertices joined by an edge
C7_Witness ==
    /\ pc = "done"
    /\ numVertices = 2
    /\ \E k \in EdgeIndexSet : At(eList, k).src # At(eList, k).tar
    /\ \A v \in VertexSet : At(colour, v) = Black

\* C8: topoSort appends a vertex to the output at its finishVertex and does nothing
\* else to it; when topoSort has returned the output is what it was before, followed
\* by every vertex exactly once, in finish order, on cyclic and acyclic graphs alike.
C8_OutputIsFinishOrder ==
    (visitor = "topo" /\ pc \in {"init", "scan", "visit", "fault", "done"}) =>
       /\ vs = vs0 \o FinishOrder
       /\ pc = "done" =>
             /\ Len(Produced) = numVertices
             /\ \A v \in VertexSet : Count(Produced, v) = 1

\* C8 witness: topoSort has returned from a graph with the cycle 0 -> 1 -> 0, called
\* with an output that already held an entry
C8_Witness ==
    /\ pc = "done"
    /\ visitor = "topo"
    /\ vs0 # <<>>
    /\ numVertices = 2
    /\ ~Acyclic
    /\ \E k \in EdgeIndexSet : At(eList, k).src # At(eList, k).tar

\* C9: testTopoSort(1), the graph with vertices 0..7 and edges 0->3, 3->5, 5->7, 2->4,
\* 4->6, 6->7, prints 2,4,6,1,0,3,5,7.
C9_Graph1Output ==
    (num = 1 /\ pc = "printed") => vs = <<2, 4, 6, 1, 0, 3, 5, 7>>

\* C10: initVertex fires once for every vertex, in ascending descriptor order, and
\* before every other callback of the run.
C10_InitVertexFirstAscending ==
    pc # "build" =>
       LET m == IF pc = "init" THEN it ELSE numVertices
       IN  /\ Len(events) >= m
           /\ \A k \in 1..Len(events) :
                 IF k <= m
                 THEN events[k].cb = "initVertex" /\ Deref(events[k].arg) = k - 1
                 ELSE events[k].cb # "initVertex"

\* C10 witness: a run on two vertices has gone past its initVertex calls
C10_Witness ==
    /\ pc = "done"
    /\ numVertices = 2
    /\ Len(events) > numVertices
    /\ events[1].cb = "initVertex" /\ events[2].cb = "initVertex"
    /\ events[3].cb = "startVertex"

\* C11: startVertex(v) fires exactly for the vertices that are Unvisited when the
\* ascending scan of dfs reaches them, never for a vertex entered through a tree edge;
\* the startVertex calls come in ascending descriptor order, each is followed at once
\* by discoverVertex of the same vertex, and the seed of the previous startVertex has
\* had its finishVertex before the next startVertex.
C11_StartVertexAtSeeds ==
    /\ pc \in {"scan", "visit", "done", "printed"} =>
          \A v \in VertexSet : v < it => At(colour, v) # White
    /\ \A i \in 1..Len(events) :
          LET ev == events[i]
          IN  /\ ev.cb = "startVertex" =>
                    /\ At(ev.seen, Deref(ev.arg)) = White
                    /\ i < Len(events) =>
                          /\ events[i + 1].cb = "discoverVertex"
                          /\ events[i + 1].arg = Deref(ev.arg)
                    /\ \A j \in 1..(i - 1) :
                          events[j].cb = "startVertex" =>
                             /\ Deref(events[j].arg) < Deref(ev.arg)
                             /\ \E k \in (j + 1)..(i - 1) :
                                   /\ events[k].cb = "finishVertex"
                                   /\ events[k].arg = Deref(events[j].arg)
                    /\ \A j \in 1..Len(events) :
                          events[j].cb = "treeEdge" => events[j].arg.tar # Deref(ev.arg)
              /\ ev.cb = "discoverVertex" =>
                    /\ i > 1
                    /\ \/ /\ events[i - 1].cb = "startVertex"
                          /\ Deref(events[i - 1].arg) = ev.arg
                       \/ /\ events[i - 1].cb = "treeEdge"
                          /\ events[i - 1].arg.tar = ev.arg

\* C11 witness: a finished run with two seeds, the first of which reached another
\* vertex through a tree edge
C11_Witness ==
    /\ pc = "done"
    /\ \E i, j, k \in 1..Len(events) :
          /\ i < j /\ j < k
          /\ events[i].cb = "startVertex"
          /\ events[j].cb = "treeEdge"
          /\ events[k].cb = "startVertex"

\* C12: in a run of dfs or topoSort the backEdge callback fires at least once if and
\* only if the graph has a directed cycle (a self-loop is a cycle).
C12_BackEdgeIffCycle ==
    Returned => ((\E i \in 1..Len(events) : events[i].cb = "backEdge") <=> ~Acyclic)

\* C13: dfs and topoSort terminate on every finite graph, cycles, self-loops and
\* parallel edges included: a run that has begun can always take its next step until it
\* returns (every step adds to events or advances the scan, so it cannot run for ever),
\* every vertex is finished when it returns, and on a graph with a cycle the reverse of
\* what topoSort produced is no topological order.
C13_TerminatesOnEveryGraph ==
    /\ pc \in {"init", "scan", "visit", "fault"} => ENABLED DfsStep
    /\ Returned => \A v \in VertexSet : At(colour, v) = Black
    /\ (pc = "done" /\ visitor = "topo" /\ ~Acyclic) =>
          \E k \in EdgeIndexSet :
             ~Before(Reverse(Produced), At(eList, k).src, At(eList, k).tar)

\* C14: from an empty graph, the m-th addEdge(s, t) call returns a descriptor with
\* stored index m-1, source s and target t; the edge count is the number of addEdge
\* calls made; the descriptors returned by two different calls are never equal, not
\* even for parallel edges.
C14_EdgeDescriptorsDenseAndDistinct ==
    /\ numEdges = Len(eCalls)
    /\ Len(eRet) = Len(eCalls)
    /\ \A m \in 1..Len(eRet) :
          /\ eRet[m].storedEdgeIdx = m - 1
          /\ source(eRet[m]) = eCalls[m][1]
          /\ target(eRet[m]) = eCalls[m][2]
    /\ \A i, j \in 1..Len(eRet) : i # j => ~EdgeEq(eRet[i], eRet[j])

\* C14 witness: two addEdge calls with the same source and target
C14_Witness ==
    /\ Len(eCalls) = 2
    /\ eCalls[1] = eCalls[2]
    /\ eCalls[1][1] # eCalls[1][2]

\* the descriptors of the edges added, in the order of the addEdge calls
Added == [m \in 1..Len(eCalls) |-> EdgeDescriptor(eCalls[m][1], eCalls[m][2], m - 1)]

\* C15: edges() yields every stored edge once, the i-th with stored index i and the
\* source and target of the i-th addEdge call; a walk of outEdges(v) yields exactly
\* the edges with source v in the order they were added; on a Bidirectional graph a
\* walk of inEdges(v) yields exactly the edges with target v in the order they were
\* added; vertices() yields 0 .. vertexCount-1 ascending.
C15_IterationFollowsCreationOrder ==
    /\ edges = Added
    /\ vertices = vRet
    /\ \A i \in 1..Len(vertices) : vertices[i] = i - 1
    /\ \A v \in VertexSet :
          \A w \in OutEdgesWalks(v) :
             ~w.fault /\ w.yield = SelectSeq(Added, LAMBDA d : d.src = v)
    /\ InEdgesAvailable =>
          \A v \in VertexSet :
             \A w \in InEdgesWalks(v) :
                ~w.fault /\ w.yield = SelectSeq(Added, LAMBDA d : d.tar = v)

\* C16: mutations only append. A call of addVertex leaves the edge store and every
\* existing vertex (its out- and in-edge sequences and its payload) as they were; a
\* call of addEdge(s, t) leaves the vertex count, the vertex payloads and every existing
\* edge as they were, appends one reference at the end of the out-edge sequence of s
\* and, on a Bidirectional graph, of the in-edge sequence of t, and leaves every other
\* adjacency sequence as it was.
C16_MutationsOnlyAppend ==
    [][/\ Len(vRet') = Len(vRet) + 1 =>
             /\ eList' = eList
             /\ Len(vList') = Len(vList) + 1
             /\ SubSeq(vList', 1, Len(vList)) = vList
       /\ Len(eRet') = Len(eRet) + 1 =>
             LET s == eCalls'[Len(eCalls')][1]
                 t == eCalls'[Len(eCalls')][2]
                 index == Len(eList)
             IN  /\ Len(vList') = Len(vList)
                 /\ Len(eList') = Len(eList) + 1
                 /\ SubSeq(eList', 1, Len(eList)) = eList
                 /\ \A v \in VertexSet :
                       /\ vertexProp # "NoProp" =>
                             At(vList', v).vProp = At(vList, v).vProp
                       /\ At(vList', v).eOut =
                             IF v = s THEN Append(OutList(v), index) ELSE OutList(v)
                       /\ category = "Bidirectional" =>
                             At(vList', v).eIn =
                                IF v = t THEN Append(InList(v), index) ELSE InList(v)]_vars

\* C16 witness: a second edge was appended to an out-edge sequence that held one, on a
\* Bidirectional graph whose vertices and edges carry payloads
C16_Witness ==
    /\ category = "Bidirectional"
    /\ vertexProp # "NoProp" /\ edgeProp # "NoProp"
    /\ numVertices = 2
    /\ OutList(0) = <<0, 1>>
    /\ InList(1) = <<1>>

\* C17: in every reachable state outDegree(v) is the number of addEdge calls made with
\* source v and, on a Bidirectional graph, inDegree(v) the number of addEdge calls made
\* with target v, a self-loop counting once in each (so the out-degrees add up to the
\* edge count, and after the single edge u -> v on two vertices outDegree(u) = 1 and
\* outDegree(v) = 0).
C17_DegreesCountEdges ==
    /\ \A v \in VertexSet :
          \A d \in OutDegrees(v) :
             /\ ~d.fault
             /\ d.value = Cardinality({m \in 1..Len(eCalls) : eCalls[m][1] = v})
    /\ InEdgesAvailable =>
          \A v \in VertexSet :
             \A d \in InDegrees(v) :
                /\ ~d.fault
                /\ d.value = Cardinality({m \in 1..Len(eCalls) : eCalls[m][2] = v})

\* C18: on a Directed graph the in-edge capability does not exist: inEdges and
\* inDegree are rejected, and no sequence of addVertex and addEdge calls stores an
\* in-edge reference.
C18_DirectedHasNoInEdges ==
    category = "Directed" =>
       /\ ~InEdgesAvailable
       /\ \A i \in 1..Len(vList) : "eIn" \notin DOMAIN vList[i]

\* C18 witness: a Directed graph of two vertices after two addEdge calls
C18_Witness ==
    /\ category = "Directed"
    /\ numVertices = 2
    /\ Len(eCalls) = 2
    /\ eCalls[1] # eCalls[2]

\* C19: when finishVertex(u) fires no out-neighbour of u is Unvisited, and at no point
\* of a run is there an edge from a Done vertex to an Unvisited one; on an acyclic graph
\* every vertex reachable from u is Done when finishVertex(u) fires.
C19_NoEdgeFromDoneToUnvisited ==
    pc # "build" =>
       /\ \A k \in EdgeIndexSet :
             ~(/\ At(colour, At(eList, k).src) = Black
               /\ At(colour, At(eList, k).tar) = White)
       /\ \A i \in 1..Len(events) :
             events[i].cb = "finishVertex" =>
                /\ \A w \in Successors({events[i].arg}) : At(events[i].seen, w) # White
                /\ Acyclic =>
                      \A w \in ReachableFrom(events[i].arg) : At(events[i].seen, w) = Black

\* the vertices of the dfsVisit activations that are past their discoverVertex
OnStack == {stack[i].u : i \in {j \in 1..Len(stack) : stack[j].at # "enter"}}

\* C20: at every point of a run the Active vertices are exactly the vertices on the
\* recursion stack; they form one chain seed = a0, a1, ..., ak in which each a(i+1)
\* was entered through a tree edge from a(i); when backEdge(e) fires for e = (v, w),
\* v is the innermost vertex of the chain and w is v or an ancestor of v on it.
C20_ActiveVerticesFormTheStackChain ==
    pc \in {"init", "scan", "visit", "done", "printed"} =>
       /\ {v \in VertexSet : At(colour, v) = Grey} = OnStack
       /\ \A i, j \in 1..Len(stack) : i # j => stack[i].u # stack[j].u
       /\ stack # <<>> =>
             \E j \in 1..Len(events) :
                /\ events[j].cb = "startVertex"
                /\ Deref(events[j].arg) = stack[1].u
                /\ \A k \in (j + 1)..Len(events) : events[k].cb # "startVertex"
       /\ \A i \in 2..Len(stack) :
             \E j \in 1..Len(events) :
                /\ events[j].cb = "treeEdge"
                /\ events[j].arg.src = stack[i - 1].u
                /\ events[j].arg.tar = stack[i].u
       /\ (pc = "visit" /\ Top.at = "edge" /\ events[Len(events)].cb = "backEdge") =>
             /\ events[Len(events)].arg.src = Top.u
             /\ \E i \in 1..Len(stack) : stack[i].u = events[Len(events)].arg.tar

\* the arguments of the examineEdge callbacks for edges with source v among the
\* callbacks d .. f, in order
ExaminedFrom(v, d, f) ==
    LET own == SelectSeq(SubSeq(events, d, f),
                         LAMBDA ev : ev.cb = "examineEdge" /\ ev.arg.src = v)
    IN  [i \in 1..Len(own) |-> own[i].arg]

\* C21: between discoverVertex(v) and finishVertex(v) the out-edges of v are examined,
\* all of them and in the order they were added; the callbacks of one out-edge of v are
\* complete, finishEdge included, before the next out-edge of v is examined and before
\* finishVertex(v); a vertex with no out-edges has finishVertex right after
\* discoverVertex.
C21_OutEdgesInAdjacencyOrder ==
    \A f \in 1..Len(events) :
       events[f].cb = "finishVertex" =>
          LET v == events[f].arg
          IN  \A d \in Occ("discoverVertex", v) :
                 /\ d < f
                 /\ ExaminedFrom(v, d, f) = Descriptors(OutList(v))
                 /\ OutList(v) = <<>> => f = d + 1
                 /\ \A i \in d..f :
                       (events[i].cb = "examineEdge" /\ events[i].arg.src = v) =>
                          \E j \in (i + 1)..(f - 1) :
                             /\ events[j].cb = "finishEdge"
                             /\ events[j].arg = events[i].arg
                             /\ \A k \in (i + 1)..j :
                                   ~(/\ events[k].cb = "examineEdge"
                                     /\ events[k].arg.src = v)

Max(S) == CHOOSE x \in S : \A y \in S : y <= x

\* the number of edges of the longest simple path that starts at v and avoids seen
RECURSIVE LongestFrom(_, _)
LongestFrom(v, seen) ==
    LET next == Successors({v}) \ seen
    IN  IF next = {} THEN 0
        ELSE 1 + Max({LongestFrom(w, seen \cup {w}) : w \in next})

LongestPath(s) == LongestFrom(s, {s})

\* the number of dfsVisit activations open when callback i, a discoverVertex, is made
Nesting(i) ==
    Cardinality({j \in 1..i : events[j].cb = "discoverVertex"})
       - Cardinality({j \in 1..i : events[j].cb = "finishVertex"})

\* the seed of the tree callback i belongs to
SeedOf(i) ==
    Deref(events[Max({j \in 1..i : events[j].cb = "startVertex"})].arg)

\* the deepest recursion below the seed among the callbacks j .. f, the call of
\* dfsVisit on the seed counting as depth 0
MaxDepth(j, f) ==
    Max({Nesting(i) - 1 : i \in {k \in j..f : events[k].cb = "discoverVertex"}})

Calls(cb) == {i \in 1..Len(events) : events[i].cb = cb}

\* C23: the tree edges of a run form a spanning forest: every vertex is the target of
\* at most one treeEdge callback; when the run has returned a vertex is the target of a
\* treeEdge iff it received no startVertex, and the treeEdge and startVertex callbacks
\* together number vertexCount; a self-loop is classified backEdge, never treeEdge; of
\* parallel edges u -> w at most one is a tree edge.
C23_TreeEdgesFormSpanningForest ==
    /\ \A i, j \in Calls("treeEdge") :
          (events[i].arg.tar = events[j].arg.tar) => i = j
    /\ Returned =>
          /\ \A v \in VertexSet :
                (\E i \in Calls("treeEdge") : events[i].arg.tar = v)
                   <=> ~(\E i \in Calls("startVertex") : Deref(events[i].arg) = v)
          /\ Cardinality(Calls("treeEdge")) + Cardinality(Calls("startVertex"))
                = numVertices
    /\ \A i \in 1..Len(events) :
          (events[i].cb \in Classification /\ events[i].arg.src = events[i].arg.tar) =>
             events[i].cb = "backEdge"

====
